---- MODULE Spec2Model ----
(***************************************************************************)
(* Poseidon2 over the bn256 scalar field: field arithmetic in Montgomery   *)
(* form, the 64-round permutation, the rate-2 sponge (Hasher) and the      *)
(* public hashing functions built on it.                                   *)
(*                                                                         *)
(* Scaling.  TLC's integers are 32 bits wide, so the 4 x 64-bit limbs of   *)
(* Fr are modelled as 4 limbs of LimbBits = 2 bits (an 8-bit word, radix   *)
(* R = 2^8 for 2^256), a byte as ByteBits = 2 bits (so the 32-byte buffer  *)
(* of FromBytes is 4 bytes and the 31-byte group of HashBytes is 3 bytes)  *)
(* and the modulus as the prime 67, which keeps what the code relies on:   *)
(* r is odd, r < R/2 (32-byte values >= 2r exist), every group value is    *)
(* below r, and gcd(5, r - 1) = 1.  An Fr is held as the integer its limbs *)
(* spell, least significant limb first.  crypto/sha256 is replaced by a    *)
(* fixed mixing function of the same shape (bytes in, one buffer out).     *)
(***************************************************************************)
EXTENDS Integers, Sequences, FiniteSets, TLC

VARIABLES
    roundConstants,  \* [TOTAL_ROUNDS][T]Fr, written by init()
    mdsMatrix,       \* [T][T]Fr, written by init()
    h,               \* the Hasher under test: state [T]Fr, absorbed
    twin,            \* a Hasher from NewHasher() given the operations h got since h was made or Reset
    resetOf,         \* <<the Hasher Reset was last called on>>, <<>> before the first Reset of h
    ops,             \* number of Hasher operations performed so far
    last,            \* the last Hasher operation: its name, argument and results
    call,            \* one call of a public function: its arguments and result
    generated,       \* number of times init() has run
    permuted,        \* the <<input, output>> pairs of the direct ProductionPermutation calls made
    threads          \* the concurrent hashing calls: per thread its arguments, position, Hasher and result

vars == <<roundConstants, mdsMatrix, h, twin, resetOf, ops, last, call, generated, permuted, threads>>

---------------------------------------------------------------------------
(* Field parameters *)

LimbBits == 2
ByteBits == 2
Limbs == 4
T == 3
FULL_ROUNDS == 8
PARTIAL_ROUNDS == 56
TOTAL_ROUNDS == FULL_ROUNDS + PARTIAL_ROUNDS
Rate == 2
GroupBytes == 3

WordBits == Limbs * LimbBits
RadixR == 2 ^ WordBits
LimbRadix == 2 ^ LimbBits
ByteRadix == 2 ^ ByteBits
BufBytes == WordBits \div ByteBits
BytesPerLimb == LimbBits \div ByteBits

rModulus == 67
montgomeryR == 55
montgomeryR2 == 10

Fr == 0 .. (RadixR - 1)
Canonical == 0 .. (rModulus - 1)
Uint64 == 0 .. (LimbRadix - 1)
Byte == 0 .. (ByteRadix - 1)

Zero == 0
One == montgomeryR

---------------------------------------------------------------------------
(* Helpers of the arithmetic *)

\* z = x - y over the full width, and the final borrow
sub(x, y) == [z |-> (x - y) % RadixR, borrow |-> IF x < y THEN 1 ELSE 0]

\* z = x + y over the full width, and the final carry
add(x, y) == [z |-> (x + y) % RadixR, carry |-> (x + y) \div RadixR]

\* z = y if cond = 0, z = x if cond = 1 (cond is always 0 or 1)
cmov(y, x, cond) == IF cond = 1 THEN x ELSE y

reduce(z) ==
    LET d == sub(z, rModulus)
    IN  cmov(z, d.z, 1 - d.borrow)

IsZero(f) == f = 0

Equal(f, other) == f = other

---------------------------------------------------------------------------
(* Montgomery multiplication *)

\* the reduction loop: WordBits passes, each adding r when t is odd and halving t
RECURSIVE montgomeryReduction(_, _)
montgomeryReduction(t, i) ==
    IF i = WordBits THEN t
    ELSE IF t % 2 = 1
         THEN montgomeryReduction((t + rModulus) \div 2, i + 1)
         ELSE montgomeryReduction(t \div 2, i + 1)

\* the product and the reduction loop, the low limbs taken as they are
MulStepsNoSubtraction(x, y) == montgomeryReduction(x * y, 0) % RadixR

\* the double-width product, the reduction loop, the final conditional subtraction
MulSteps(x, y) ==
    LET t == montgomeryReduction(x * y, 0)
        z == t % RadixR
        d == sub(z, rModulus)
    IN  cmov(z, d.z, 1 - d.borrow)

\* MulSteps on every (x, canonical y), computed once
mulTable ==
    <<>> \o [x \in 1 .. RadixR |->
                <<>> \o [y \in 1 .. rModulus |-> MulSteps(x - 1, y - 1)]]

\* the reduction loop run one pass short
MulOnePassShort(x, y) == reduce(montgomeryReduction(x * y, 1) % RadixR)

Mul(x, y) == IF y < rModulus THEN mulTable[x + 1][y + 1] ELSE MulSteps(x, y)

Square(x) == Mul(x, x)

\* the full-width sum, never brought back below the modulus
AddNoReduction(x, y) == add(x, y).z

Add(x, y) ==
    LET s == add(x, y)
        d == sub(s.z, rModulus)
        shouldSubtract == IF s.carry = 1 \/ d.borrow = 0 THEN 1 ELSE 0
    IN  cmov(s.z, d.z, shouldSubtract)

Sub(x, y) ==
    LET d == sub(x, y)
        temp == add(d.z, rModulus)
    IN  cmov(d.z, temp.z, d.borrow)

\* the negation taken from the radix instead of the modulus
NegFromRadix(x) == sub(0, x).z

Neg(x) == IF IsZero(x) THEN Zero ELSE sub(rModulus, x).z

---------------------------------------------------------------------------
(* Conversions *)

\* binary.BigEndian.Uint64 of one limb's bytes
RECURSIVE BigEndianUint(_)
BigEndianUint(bytes) ==
    IF bytes = <<>> THEN 0
    ELSE BigEndianUint(SubSeq(bytes, 1, Len(bytes) - 1)) * ByteRadix + bytes[Len(bytes)]

\* binary.BigEndian.PutUint64 / PutUint32: v as n bytes, most significant first
RECURSIVE BigEndianPut(_, _)
BigEndianPut(v, n) ==
    IF n = 0 THEN <<>>
    ELSE Append(BigEndianPut(v \div ByteRadix, n - 1), v % ByteRadix)

\* limb k (0 = least significant) of a big-endian buffer
LimbOfBytes(data, k) ==
    BigEndianUint(SubSeq(data, BufBytes - (k + 1) * BytesPerLimb + 1,
                               BufBytes - k * BytesPerLimb))

\* the Fr whose limbs are l0 (least significant) .. l3
FrOfLimbs(l0, l1, l2, l3) ==
    l0 + LimbRadix * (l1 + LimbRadix * (l2 + LimbRadix * l3))

LimbOf(f, k) == (f \div (LimbRadix ^ k)) % LimbRadix

FromUint64(x) ==
    IF x = 0 THEN Zero
    ELSE IF x = 1 THEN One
    ELSE Mul(FrOfLimbs(x, 0, 0, 0), montgomeryR2)

\* the limbs of the buffer, reduced but left out of Montgomery form
FromBytesRegular(data) ==
    reduce(FrOfLimbs(LimbOfBytes(data, 0), LimbOfBytes(data, 1),
                     LimbOfBytes(data, 2), LimbOfBytes(data, 3)))

FromBytes(data) ==
    LET limbs == FrOfLimbs(LimbOfBytes(data, 0), LimbOfBytes(data, 1),
                           LimbOfBytes(data, 2), LimbOfBytes(data, 3))
    IN  Mul(reduce(limbs), montgomeryR2)

\* the limbs written least significant first
ToBytes32LeastFirst(f) ==
    BigEndianPut(LimbOf(Mul(f, FrOfLimbs(1, 0, 0, 0)), 0), BytesPerLimb)
    \o BigEndianPut(LimbOf(Mul(f, FrOfLimbs(1, 0, 0, 0)), 1), BytesPerLimb)
    \o BigEndianPut(LimbOf(Mul(f, FrOfLimbs(1, 0, 0, 0)), 2), BytesPerLimb)
    \o BigEndianPut(LimbOf(Mul(f, FrOfLimbs(1, 0, 0, 0)), 3), BytesPerLimb)

ToBytes32(f) ==
    LET regular == Mul(f, FrOfLimbs(1, 0, 0, 0))
    IN  BigEndianPut(LimbOf(regular, 3), BytesPerLimb)
        \o BigEndianPut(LimbOf(regular, 2), BytesPerLimb)
        \o BigEndianPut(LimbOf(regular, 1), BytesPerLimb)
        \o BigEndianPut(LimbOf(regular, 0), BytesPerLimb)

---------------------------------------------------------------------------
(* Constant generation *)

\* stand-in for sha256.Sum256: a fixed function from a byte string to one buffer
RECURSIVE digestFold(_, _)
digestFold(input, acc) ==
    IF input = <<>> THEN acc
    ELSE digestFold(Tail(input),
                    (acc * acc + acc * 7 + Head(input) * 3 + Len(input)) % 251)

Sum256(input) == BigEndianPut(digestFold(input, 89), BufBytes)

roundSeed == <<1, 2, 0, 3>>
mdsSeed == <<2, 1, 3>>

generateConstant(seed, round, pos) ==
    FromBytes(Sum256(seed \o BigEndianPut(round, 4) \o BigEndianPut(pos, 4)))

IsFullRound(round) ==
    round < FULL_ROUNDS \div 2 \/ round >= FULL_ROUNDS \div 2 + PARTIAL_ROUNDS

generateRoundConstants ==
    [r \in 1 .. TOTAL_ROUNDS |->
        IF IsFullRound(r - 1)
        THEN <<generateConstant(roundSeed, r - 1, 0),
               generateConstant(roundSeed, r - 1, 1),
               generateConstant(roundSeed, r - 1, 2)>>
        ELSE <<generateConstant(roundSeed, r - 1, 0), Zero, Zero>>]

mdsEntry(i, j) ==
    Add(generateConstant(mdsSeed \o <<i % ByteRadix, j % ByteRadix>>, i, j), FromUint64(1))

generateMDSMatrix ==
    [i \in 1 .. T |-> <<mdsEntry(i - 1, 0), mdsEntry(i - 1, 1), mdsEntry(i - 1, 2)>>]

---------------------------------------------------------------------------
(* Permutation.  A state is <<state[0], state[1], state[2]>>. *)

\* the S-box with the second squaring left out
sBoxProdOneSquare(x) == Mul(Square(x), x)

sBoxProd(x) ==
    LET x2 == Square(x)
        x4 == Square(x2)
    IN  Mul(x4, x)

mdsRow(state, i) ==
    Add(Add(Add(Zero, Mul(mdsMatrix[i + 1][1], state[1])),
            Mul(mdsMatrix[i + 1][2], state[2])),
        Mul(mdsMatrix[i + 1][3], state[3]))

applyMDS(state) == <<mdsRow(state, 0), mdsRow(state, 1), mdsRow(state, 2)>>

fullRound(state, round) ==
    applyMDS(<<sBoxProd(Add(state[1], roundConstants[round + 1][1])),
               sBoxProd(Add(state[2], roundConstants[round + 1][2])),
               sBoxProd(Add(state[3], roundConstants[round + 1][3]))>>)

partialRound(state, round) ==
    applyMDS(<<sBoxProd(Add(state[1], roundConstants[round + 1][1])),
               state[2], state[3]>>)

\* for round := lp.round; round < hi; round++ { fullRound / partialRound }
RECURSIVE roundLoop(_, _, _)
roundLoop(lp, hi, full) ==
    IF lp.round >= hi THEN lp.state
    ELSE roundLoop([state |-> IF full THEN fullRound(lp.state, lp.round)
                                      ELSE partialRound(lp.state, lp.round),
                    round |-> lp.round + 1], hi, full)

\* a permutation that starts one round later once a Hasher operation was made
PermutationByHistory(state) ==
    roundLoop([state |-> state, round |-> IF ops > 0 THEN 1 ELSE 0], TOTAL_ROUNDS, TRUE)

ProductionPermutation(state) ==
    LET s1 == roundLoop([state |-> state, round |-> 0], FULL_ROUNDS \div 2, TRUE)
        s2 == roundLoop([state |-> s1, round |-> FULL_ROUNDS \div 2],
                        FULL_ROUNDS \div 2 + PARTIAL_ROUNDS, FALSE)
    IN  roundLoop([state |-> s2, round |-> FULL_ROUNDS \div 2 + PARTIAL_ROUNDS],
                  TOTAL_ROUNDS, TRUE)

---------------------------------------------------------------------------
(* Sponge.  A Hasher is [state, absorbed]; perms and absorbs count the     *)
(* calls of ProductionPermutation and of Absorb made on it since it was    *)
(* last cleared by begin.                                                  *)

NewHasher == [state |-> <<Zero, Zero, Zero>>, absorbed |-> 0, perms |-> 0, absorbs |-> 0]

begin(hs) == [hs EXCEPT !.perms = 0, !.absorbs = 0]

\* ProductionPermutation(&h.state)
permute(hs) ==
    [hs EXCEPT !.state = ProductionPermutation(hs.state), !.perms = hs.perms + 1]

\* Absorb with the element always added into state[0]
AbsorbFirstSlot(hs, element) ==
    LET a == [hs EXCEPT !.state[1] = Add(hs.state[1], element),
                        !.absorbed = hs.absorbed + 1,
                        !.absorbs = hs.absorbs + 1]
    IN  IF a.absorbed >= Rate
        THEN [permute(a) EXCEPT !.absorbed = 0]
        ELSE a

\* Absorb with the test h.absorbed > 2 in place of h.absorbed >= 2
AbsorbLateFlush(hs, element) ==
    LET k == hs.absorbed
        a == [hs EXCEPT !.state[k + 1] = Add(hs.state[k + 1], element),
                        !.absorbed = k + 1,
                        !.absorbs = hs.absorbs + 1]
    IN  IF a.absorbed > Rate
        THEN [permute(a) EXCEPT !.absorbed = 0]
        ELSE a

Absorb(hs, element) ==
    LET k == hs.absorbed
        a == [hs EXCEPT !.state[k + 1] = Add(hs.state[k + 1], element),
                        !.absorbed = k + 1,
                        !.absorbs = hs.absorbs + 1]
    IN  IF a.absorbed >= Rate
        THEN [permute(a) EXCEPT !.absorbed = 0]
        ELSE a

RECURSIVE AbsorbMany(_, _)
AbsorbMany(hs, elements) ==
    IF elements = <<>> THEN hs
    ELSE AbsorbMany(Absorb(hs, Head(elements)), Tail(elements))

\* return h.state[0]: the Hasher after the call and the value returned
returnState0(hs) == [h |-> hs, ret |-> hs.state[1]]

\* Squeeze as its header comment reads: permuting when nothing was absorbed
SqueezeWhenEmpty(hs) ==
    returnState0(IF hs.absorbed = 0
                 THEN [permute(hs) EXCEPT !.absorbed = 0]
                 ELSE hs)

Squeeze(hs) ==
    returnState0(IF hs.absorbed > 0
                 THEN [permute(hs) EXCEPT !.absorbed = 0]
                 ELSE hs)

\* Finalize padding a partial block: One is added after the last element
FinalizePadded(hs) ==
    returnState0(IF hs.absorbed > 0
                 THEN permute([hs EXCEPT !.state[hs.absorbed + 1] = Add(@, One)])
                 ELSE hs)

\* Finalize permuting whether or not anything is pending
FinalizeAlwaysPermutes(hs) == returnState0(permute(hs))

Finalize(hs) ==
    returnState0(IF hs.absorbed > 0 THEN permute(hs) ELSE hs)

\* Reset that clears the counter and leaves the state words
ResetCounterOnly(hs) == [hs EXCEPT !.absorbed = 0]

Reset(hs) == [hs EXCEPT !.state = <<Zero, Zero, Zero>>, !.absorbed = 0]

---------------------------------------------------------------------------
(* Public hashing functions.  XCall is the call's Hasher and result,       *)
(* X its returned value.                                                   *)

HashCall(elements) ==
    IF Len(elements) = 0
    THEN Finalize(NewHasher)
    ELSE Finalize(AbsorbMany(NewHasher, elements))

Hash(elements) == HashCall(elements).ret

\* Compress2 absorbing right before left
Compress2Swapped(a, b) == Finalize(Absorb(Absorb(NewHasher, b), a))

Compress2Call(a, b) == Finalize(Absorb(Absorb(NewHasher, a), b))

Compress2(a, b) == Compress2Call(a, b).ret

\* HashMany absorbing the domain tag after the elements
HashManyTagLast(tag, elements) ==
    Finalize(Absorb(AbsorbMany(NewHasher, elements), FromUint64(tag)))

HashManyCall(tag, elements) ==
    Finalize(AbsorbMany(Absorb(NewHasher, FromUint64(tag)), elements))

HashMany(tag, elements) == HashManyCall(tag, elements).ret

\* the group left-aligned in the buffer: copy(padded[:], chunk[i:end])
padGroupLeft(group) == group \o [j \in 1 .. (BufBytes - Len(group)) |-> 0]

\* the group right-aligned, its length written in the spare first byte
padGroupWithLength(group) ==
    <<Len(group)>> \o [j \in 1 .. (BufBytes - Len(group) - 1) |-> 0] \o group

\* var padded [32]byte; copy(padded[32-(end-i):], chunk[i:end])
padGroup(group) == [j \in 1 .. (BufBytes - Len(group)) |-> 0] \o group

Min(a, b) == IF a < b THEN a ELSE b

\* for i := i; i < len(chunk); i += 31 { ... hasher.Absorb(FromBytes(padded)) }
RECURSIVE absorbChunk(_, _, _)
absorbChunk(hs, chunk, i) ==
    IF i >= Len(chunk) THEN hs
    ELSE LET end == Min(i + GroupBytes, Len(chunk))
             element == FromBytes(padGroup(SubSeq(chunk, i + 1, end)))
         IN  absorbChunk(Absorb(hs, element), chunk, i + GroupBytes)

\* for _, chunk := range data { if len(chunk) == 0 { continue }; ... }
RECURSIVE absorbChunks(_, _)
absorbChunks(hs, data) ==
    IF data = <<>> THEN hs
    ELSE IF Len(Head(data)) = 0
         THEN absorbChunks(hs, Tail(data))
         ELSE absorbChunks(absorbChunk(hs, Head(data), 0), Tail(data))

\* HashBytes reporting an error when no byte was absorbed
returnBytesFailing(f) ==
    [h |-> f.h, ret |-> ToBytes32(f.ret),
     err |-> IF f.h.absorbs = 1 THEN "empty input" ELSE "nil"]

\* return result.ToBytes32(), nil
returnBytes(f) == [h |-> f.h, ret |-> ToBytes32(f.ret), err |-> "nil"]

HashBytesCall(tag, data) ==
    returnBytes(Finalize(absorbChunks(Absorb(NewHasher, FromUint64(tag)), data)))

HashBytes(tag, data) == HashBytesCall(tag, data).ret

---------------------------------------------------------------------------
(* Inputs and bounds *)

MaxOps == 3        \* Hasher operations in one behaviour
MaxElements == 3   \* elements passed to Hash / HashMany
MaxChunks == 2     \* byte chunks passed to HashBytes

Two == FromUint64(2)
Three == FromUint64(3)

ElementInputs == {Zero, One, Three}

ManyInputs == {<<>>, <<One>>, <<Three, One>>, <<One, Zero, Two>>}

ChunkInputs == {<<>>, <<1>>, <<0, 1>>, <<3, 2, 1>>, <<1, 0, 2, 3>>, <<0, 0, 1, 2, 3, 3, 1>>}

RECURSIVE SeqsUpTo(_, _)
SeqsUpTo(S, n) ==
    IF n = 0 THEN {<<>>}
    ELSE LET shorter == SeqsUpTo(S, n - 1)
         IN  shorter \cup {Append(q, x) : q \in {p \in shorter : Len(p) = n - 1}, x \in S}

---------------------------------------------------------------------------
(* The Hasher's life: any sequence of its operations *)

tables == <<roundConstants, mdsMatrix>>

\* what the Hasher operations and the hashing calls neither read nor write
aside == <<generated, permuted, threads>>

\* init(): generateRoundConstants(); generateMDSMatrix()
InitTables ==
    /\ roundConstants = generateRoundConstants
    /\ mdsMatrix = generateMDSMatrix
    /\ generated = 1

NoThreads == <<>>

NoCall == [fn |-> "none"]

Init ==
    /\ InitTables
    /\ h = NewHasher
    /\ twin = NewHasher
    /\ resetOf = <<>>
    /\ ops = 0
    /\ last = [op |-> "NewHasher", prev |-> "none"]
    /\ call = NoCall
    /\ permuted = <<>>
    /\ threads = NoThreads

step == ops < MaxOps /\ ops' = ops + 1 /\ UNCHANGED <<tables, call, aside>>

DoNewHasher ==
    /\ step
    /\ h' = NewHasher
    /\ twin' = NewHasher
    /\ resetOf' = <<>>
    /\ last' = [op |-> "NewHasher", prev |-> last.op]

DoAbsorb ==
    \E e \in ElementInputs :
        /\ step
        /\ h' = Absorb(begin(h), e)
        /\ twin' = Absorb(begin(twin), e)
        /\ last' = [op |-> "Absorb", prev |-> last.op, arg |-> e]
        /\ UNCHANGED resetOf

DoAbsorbMany ==
    \E es \in ManyInputs :
        /\ step
        /\ h' = AbsorbMany(begin(h), es)
        /\ twin' = AbsorbMany(begin(twin), es)
        /\ last' = [op |-> "AbsorbMany", prev |-> last.op, arg |-> es]
        /\ UNCHANGED resetOf

returns(name, r, t) ==
    /\ h' = r.h
    /\ twin' = t.h
    /\ last' = [op |-> name, prev |-> last.op, ret |-> r.ret, twinRet |-> t.ret]
    /\ UNCHANGED resetOf

DoSqueeze == step /\ returns("Squeeze", Squeeze(begin(h)), Squeeze(begin(twin)))

DoFinalize == step /\ returns("Finalize", Finalize(begin(h)), Finalize(begin(twin)))

DoReset ==
    /\ step
    /\ h' = Reset(begin(h))
    /\ twin' = NewHasher
    /\ resetOf' = <<h>>
    /\ last' = [op |-> "Reset", prev |-> last.op]

Next ==
    \/ DoNewHasher
    \/ DoAbsorb
    \/ DoAbsorbMany
    \/ DoSqueeze
    \/ DoFinalize
    \/ DoReset

Spec == Init /\ [][Next]_vars

---------------------------------------------------------------------------
(* One call of a public hashing function on inputs drawn from the bounded  *)
(* sets: the call is chosen by InitApi and made by one of the actions.     *)

Tags == Uint64

CallInputs ==
    {[fn |-> "Hash", elements |-> es] : es \in SeqsUpTo(ElementInputs, MaxElements)}
    \cup {[fn |-> "Compress2", a |-> a, b |-> b] : a \in ElementInputs, b \in ElementInputs}
    \cup {[fn |-> "HashMany", tag |-> d, elements |-> es] :
             d \in Tags, es \in SeqsUpTo(ElementInputs, MaxElements - 1)}
    \cup {[fn |-> "HashBytes", tag |-> d, data |-> cs] :
             d \in Tags, cs \in SeqsUpTo(ChunkInputs, MaxChunks)}

InitApi ==
    /\ InitTables
    /\ h = NewHasher
    /\ ops = 0
    /\ last = [op |-> "NewHasher", prev |-> "none"]
    /\ twin = NewHasher
    /\ resetOf = <<>>
    /\ call \in {[in |-> c, done |-> FALSE] : c \in CallInputs}
    /\ permuted = <<>>
    /\ threads = NoThreads

returned(r) == [in |-> call.in, done |-> TRUE, ret |-> r.ret, hasher |-> r.h]

returnedErr(r) ==
    [in |-> call.in, done |-> TRUE, ret |-> r.ret, hasher |-> r.h, err |-> r.err]

CallHash ==
    /\ ~call.done /\ call.in.fn = "Hash"
    /\ call' = returned(HashCall(call.in.elements))
    /\ UNCHANGED <<tables, h, twin, resetOf, ops, last, aside>>

CallCompress2 ==
    /\ ~call.done /\ call.in.fn = "Compress2"
    /\ call' = returned(Compress2Call(call.in.a, call.in.b))
    /\ UNCHANGED <<tables, h, twin, resetOf, ops, last, aside>>

CallHashMany ==
    /\ ~call.done /\ call.in.fn = "HashMany"
    /\ call' = returned(HashManyCall(call.in.tag, call.in.elements))
    /\ UNCHANGED <<tables, h, twin, resetOf, ops, last, aside>>

CallHashBytes ==
    /\ ~call.done /\ call.in.fn = "HashBytes"
    /\ call' = returnedErr(HashBytesCall(call.in.tag, call.in.data))
    /\ UNCHANGED <<tables, h, twin, resetOf, ops, last, aside>>

NextApi ==
    \/ CallHash
    \/ CallCompress2
    \/ CallHashMany
    \/ CallHashBytes

ApiSpec == InitApi /\ [][NextApi]_vars

---------------------------------------------------------------------------
(* Properties of the Hasher, under Spec *)

HasherStep(name) == ops' = ops + 1 /\ last'.op = name

\* C2: from every reachable Hasher state Finalize() returns what Squeeze()
\* would return and leaves the Hasher as Squeeze() would leave it (the
\* pending block flushed, absorbed = 0).
FinalizeAsSqueeze ==
    [][HasherStep("Finalize") =>
          /\ last'.ret = Squeeze(begin(h)).ret
          /\ h' = Squeeze(begin(h)).h]_vars

\* Finalize() was called with one element pending
FinalizeWithPending == last.op = "Finalize" /\ h.perms = 1

AbsorbContract ==
    [][HasherStep("Absorb") =>
          LET k == h.absorbed
              e == last'.arg
              added == [j \in 1 .. T |-> IF j = k + 1 THEN Add(h.state[j], e)
                                                       ELSE h.state[j]]
          IN  /\ k \in 0 .. (Rate - 1)
              /\ h'.absorbs = 1
              /\ IF k + 1 = Rate
                 THEN /\ h'.state = ProductionPermutation(added)
                      /\ h'.absorbed = 0
                      /\ h'.perms = 1
                 ELSE /\ h'.state = added
                      /\ h'.absorbed = k + 1
                      /\ h'.perms = 0]_vars

\* an Absorb that filled the rate and permuted
AbsorbFilledRate == last.op = "Absorb" /\ h.perms = 1 /\ h.absorbed = 0

\* C5: between operations absorbed is in 0 .. Rate - 1, so state[absorbed]
\* is a word of the state.
AbsorbedBelowRate ==
    /\ h.absorbed \in 0 .. (Rate - 1)
    /\ h.absorbed + 1 \in DOMAIN h.state

\* an AbsorbMany that went through a full block and left one element pending
AbsorbedWrapped == last.op = "AbsorbMany" /\ h.perms = 1 /\ h.absorbed = 1

\* C6: Reset() leaves state = [Zero, Zero, Zero] and absorbed = 0, and from
\* then on the Hasher and a Hasher fresh from NewHasher() given the same
\* operations hold the same state and return the same values.
ResetRestoresNew ==
    /\ last.op = "Reset" =>
           h.state = NewHasher.state /\ h.absorbed = NewHasher.absorbed
    /\ resetOf # <<>> =>
           /\ h.state = twin.state
           /\ h.absorbed = twin.absorbed
           /\ last.op \in {"Squeeze", "Finalize"} => last.ret = last.twinRet

\* a Hasher Reset with an element pending, then given three elements
ResetThenAbsorbed ==
    /\ resetOf # <<>>
    /\ resetOf[1].absorbed = 1
    /\ last.op = "AbsorbMany"
    /\ h.perms = 1

---------------------------------------------------------------------------
(* Properties of the public hashing functions, under ApiSpec *)

Returned(fn) == call.done /\ call.in.fn = fn

\* C1: Hash() with no elements returns the first word of the permutation of
\* the state [Zero, Zero, Zero].
HashOfNothingIsPermutedZero ==
    (Returned("Hash") /\ call.in.elements = <<>>) =>
        call.ret = ProductionPermutation(<<Zero, Zero, Zero>>)[1]

\* Hash() was called with no elements
HashOfNothingReturned == Returned("Hash") /\ call.in.elements = <<>>

\* C7: Compress2(a, b) is the first word of one permutation of [a, b, Zero],
\* reached by two absorbs and a Finalize, and equals Hash(a, b).
Compress2IsOnePermutation ==
    Returned("Compress2") =>
        /\ call.ret = ProductionPermutation(<<call.in.a, call.in.b, Zero>>)[1]
        /\ call.hasher.absorbs = 2
        /\ call.hasher.perms = 1
        /\ call.ret = Hash(<<call.in.a, call.in.b>>)

\* Compress2 of two different elements
Compress2Returned == Returned("Compress2") /\ call.in.a # call.in.b

\* C8: HashMany(d, es...) = Hash(FromUint64(d), es...): the encoded tag is
\* absorbed first, then the elements in order.
HashManyIsHashWithTagFirst ==
    Returned("HashMany") =>
        call.ret = Hash(<<FromUint64(call.in.tag)>> \o call.in.elements)

\* HashMany of a non-zero tag and two elements
HashManyReturned ==
    Returned("HashMany") /\ call.in.tag = 3 /\ Len(call.in.elements) = 2

\* C9: HashBytes(d, chunks...) absorbs FromUint64(d), then per chunk one
\* element per group of GroupBytes bytes (the last group may be shorter),
\* each FromBytes of the group right-aligned in a zeroed buffer; an empty
\* chunk absorbs nothing; the result is ToBytes32 of the finalized word, and
\* 1 + the sum of ceil(len(chunk) / GroupBytes) elements are absorbed.
HashBytesGroups ==
    Returned("HashBytes") =>
        LET groups(chunk) == (Len(chunk) + GroupBytes - 1) \div GroupBytes
            group(chunk, g) ==
                SubSeq(chunk, (g - 1) * GroupBytes + 1, Min(g * GroupBytes, Len(chunk)))
            rightAligned(bytes) ==
                [j \in 1 .. BufBytes |->
                    IF j <= BufBytes - Len(bytes) THEN 0
                    ELSE bytes[j - (BufBytes - Len(bytes))]]
            elements(chunk) ==
                [g \in 1 .. groups(chunk) |-> FromBytes(rightAligned(group(chunk, g)))]
            RECURSIVE payload(_)
            payload(data) ==
                IF data = <<>> THEN <<>>
                ELSE elements(Head(data)) \o payload(Tail(data))
            RECURSIVE total(_)
            total(data) ==
                IF data = <<>> THEN 0 ELSE groups(Head(data)) + total(Tail(data))
        IN  /\ call.ret = ToBytes32(Hash(<<FromUint64(call.in.tag)>> \o payload(call.in.data)))
            /\ call.hasher.absorbs = 1 + total(call.in.data)
            /\ call.err = "nil"

\* HashBytes of an empty chunk and a chunk of two full groups and a short one
HashBytesReturned ==
    /\ Returned("HashBytes")
    /\ call.in.data = <<<<>>, <<0, 0, 1, 2, 3, 3, 1>>>>
    /\ call.hasher.absorbs = 4

\* C12: HashBytes has no failure path: for every tag and every sequence of
\* chunks (none, empty ones included) what the call returns is a nil error
\* and a buffer of BufBytes bytes.
HashBytesNeverFails ==
    Returned("HashBytes") =>
        /\ call.err = "nil"
        /\ Len(call.ret) = BufBytes
        /\ \A j \in 1 .. BufBytes : call.ret[j] \in Byte

\* HashBytes of no chunks at all
HashBytesOfNothing == Returned("HashBytes") /\ call.in.data = <<>> /\ call.err = "nil"

---------------------------------------------------------------------------
(* The package's life.  The Go runtime runs init() once, when the package   *)
(* is loaded and before any other function of it can be called; the tables *)
(* hold their zero value until then.  After that come direct permutation   *)
(* calls and Hasher operations, or one call of a hashing function.         *)

MaxLoadedOps == 2   \* operations after the load in one behaviour of PackageSpec

PermuteInputs == {<<Zero, Zero, Zero>>, <<One, Three, Zero>>}

\* one call of each function of the API, made once the package is loaded
LoadedCalls ==
    {[fn |-> "Hash", elements |-> <<One, Three>>],
     [fn |-> "Compress2", a |-> One, b |-> Three],
     [fn |-> "HashMany", tag |-> 3, elements |-> <<One>>],
     [fn |-> "HashBytes", tag |-> 1, data |-> <<<<3, 2, 1>>>>]}

InitPackage ==
    /\ roundConstants = [r \in 1 .. TOTAL_ROUNDS |-> <<0, 0, 0>>]
    /\ mdsMatrix = [i \in 1 .. T |-> <<0, 0, 0>>]
    /\ generated = 0
    /\ h = NewHasher
    /\ twin = NewHasher
    /\ resetOf = <<>>
    /\ ops = 0
    /\ last = [op |-> "NewHasher", prev |-> "none"]
    /\ call \in {NoCall} \cup {[in |-> c, done |-> FALSE] : c \in LoadedCalls}
    /\ permuted = <<>>
    /\ threads = NoThreads

\* init() run a second time, by whoever asks
initAgain ==
    /\ generated < 2
    /\ roundConstants' = generateRoundConstants
    /\ mdsMatrix' = generateMDSMatrix
    /\ generated' = generated + 1
    /\ UNCHANGED <<h, twin, resetOf, ops, last, call, permuted, threads>>

init ==
    /\ generated = 0
    /\ roundConstants' = generateRoundConstants
    /\ mdsMatrix' = generateMDSMatrix
    /\ generated' = generated + 1
    /\ UNCHANGED <<h, twin, resetOf, ops, last, call, permuted, threads>>

\* ProductionPermutation(&state) on a state of the caller's
DoPermute ==
    \E state \in PermuteInputs :
        /\ ops < MaxOps
        /\ ops' = ops + 1
        /\ permuted' = Append(permuted, <<state, ProductionPermutation(state)>>)
        /\ last' = [op |-> "Permute", prev |-> last.op]
        /\ UNCHANGED <<tables, generated, h, twin, resetOf, call, threads>>

NextPackage ==
    \/ init
    \/ generated > 0 /\ call = NoCall /\ ops < MaxLoadedOps /\ (DoPermute \/ Next)
    \/ generated > 0 /\ call # NoCall /\ NextApi

PackageSpec == InitPackage /\ [][NextPackage]_vars

\* C13: the tables are generated once, before any permutation, Hasher
\* operation or hashing call, and nothing writes them afterwards.
TablesGeneratedOnce ==
    [][/\ (generated' # generated \/ tables' # tables) =>
              /\ generated = 0
              /\ generated' = 1
              /\ ops = 0
              /\ permuted = <<>>
              /\ call # NoCall => ~call.done
       /\ (ops' # ops \/ call' # call \/ permuted' # permuted \/ h' # h) =>
              /\ generated = 1
              /\ generated' = 1
              /\ tables' = tables
              /\ roundConstants = generateRoundConstants
              /\ mdsMatrix = generateMDSMatrix]_vars

\* after the load, a permutation call and a Hasher operation that permuted
LoadedAndUsed ==
    /\ generated = 1
    /\ ops = MaxLoadedOps
    /\ permuted # <<>>
    /\ h.perms > 0

---------------------------------------------------------------------------
(* Direct permutation calls among Hasher operations *)

NextPermute == DoPermute \/ DoAbsorbMany \/ DoFinalize

PermuteSpec == Init /\ [][NextPermute]_vars

\* C15: the permutation is a function of its input state and the tables
\* alone: calls on equal inputs gave equal outputs, whatever was called
\* before or between them, and a call now would give the same again.
PermutationIsPure ==
    /\ \A i, j \in 1 .. Len(permuted) :
           permuted[i][1] = permuted[j][1] => permuted[i][2] = permuted[j][2]
    /\ \A i \in 1 .. Len(permuted) :
           permuted[i][2] = ProductionPermutation(permuted[i][1])

\* two permutation calls on one input with a Hasher operation that permuted between them
PermutedTwice ==
    /\ Len(permuted) = 2
    /\ permuted[1][1] = permuted[2][1]
    /\ last.op = "Permute"
    /\ last.prev # "Permute"
    /\ h.perms > 0

---------------------------------------------------------------------------
(* Concurrent hashing calls.  Every thread runs one call; a thread's record *)
(* holds the call's arguments (in), the Hasher the call made with          *)
(* NewHasher() (hasher), what it still has to absorb (todo), where it is   *)
(* (pc) and what it returned (ret).  A step is one Hasher method call of   *)
(* one thread; the tables are the only thing the threads have in common.   *)

ThreadIds == {1, 2}

ConcCalls ==
    {[fn |-> "Hash", elements |-> <<One, Three>>],
     [fn |-> "Hash", elements |-> <<Three>>],
     [fn |-> "Compress2", a |-> One, b |-> Three],
     [fn |-> "HashMany", tag |-> 3, elements |-> <<One>>],
     [fn |-> "HashBytes", tag |-> 1, data |-> <<<<3, 2, 1>>, <<1>>>>]}

hasTag(c) == c.fn \in {"HashMany", "HashBytes"}

\* the elements (the chunks, for HashBytes) the call absorbs after the tag
workOf(c) ==
    CASE c.fn = "Hash" -> c.elements
      [] c.fn = "Compress2" -> <<c.a, c.b>>
      [] c.fn = "HashMany" -> c.elements
      [] c.fn = "HashBytes" -> c.data

\* hasher := NewHasher()
started(c) ==
    [in |-> c, hasher |-> NewHasher, todo |-> workOf(c),
     pc |-> IF hasTag(c) THEN "tag" ELSE "absorb"]

InitConc ==
    /\ InitTables
    /\ h = NewHasher
    /\ twin = NewHasher
    /\ resetOf = <<>>
    /\ ops = 0
    /\ last = [op |-> "NewHasher", prev |-> "none"]
    /\ call = NoCall
    /\ permuted = <<>>
    /\ threads \in [ThreadIds -> {started(c) : c \in ConcCalls}]

\* one Hasher for all the calls: the first thread's
sharedHasher(t) == threads[1].hasher

\* the Hasher of thread t's call
hasherOf(t) == threads[t].hasher

others == <<tables, generated, h, twin, resetOf, ops, last, call, permuted>>

\* hasher.Absorb(FromUint64(uint64(tag)))
ThreadTag ==
    \E t \in ThreadIds :
        /\ threads[t].pc = "tag"
        /\ threads' = [threads EXCEPT
                          ![t].hasher = Absorb(hasherOf(t), FromUint64(threads[t].in.tag)),
                          ![t].pc = "absorb"]
        /\ UNCHANGED others

\* hasher.Absorb(element), or for HashBytes the absorbs of one chunk
ThreadAbsorb ==
    \E t \in ThreadIds :
        /\ threads[t].pc = "absorb"
        /\ threads[t].todo # <<>>
        /\ threads' = [threads EXCEPT
                          ![t].hasher =
                              IF threads[t].in.fn = "HashBytes"
                              THEN absorbChunks(hasherOf(t), <<Head(threads[t].todo)>>)
                              ELSE Absorb(hasherOf(t), Head(threads[t].todo)),
                          ![t].todo = Tail(threads[t].todo)]
        /\ UNCHANGED others

\* thread t's record once its call has returned r
finished(t, r) ==
    [in |-> threads[t].in, hasher |-> r.h, todo |-> <<>>, pc |-> "done",
     ret |-> IF threads[t].in.fn = "HashBytes" THEN ToBytes32(r.ret) ELSE r.ret]

\* return hasher.Finalize()
ThreadFinalize ==
    \E t \in ThreadIds :
        /\ threads[t].pc = "absorb"
        /\ threads[t].todo = <<>>
        /\ threads' = [threads EXCEPT ![t] = finished(t, Finalize(hasherOf(t)))]
        /\ UNCHANGED others

NextConc == ThreadTag \/ ThreadAbsorb \/ ThreadFinalize

ConcSpec == InitConc /\ [][NextConc]_vars

\* what the call returns when it runs alone
alone(c) ==
    CASE c.fn = "Hash" -> Hash(c.elements)
      [] c.fn = "Compress2" -> Compress2(c.a, c.b)
      [] c.fn = "HashMany" -> HashMany(c.tag, c.elements)
      [] c.fn = "HashBytes" -> HashBytes(c.tag, c.data)

\* C14: under every interleaving of concurrent hashing calls, each with its
\* own Hasher, every call returns what it returns when run alone.
ConcurrentCallsAsAlone ==
    \A t \in ThreadIds :
        threads[t].pc = "done" => threads[t].ret = alone(threads[t].in)

\* two different calls, both returned, that ran interleaved
BothReturned ==
    /\ \A t \in ThreadIds : threads[t].pc = "done"
    /\ threads[1].in.fn = "HashBytes"
    /\ threads[2].in.fn = "Hash"

---------------------------------------------------------------------------
(* The known-answer-test artifact.  The modulus is written in it as a hex  *)
(* string of four limb-wide groups, most significant first; the groups of  *)
(* the string in the source are limbs 3, 2, 1 of rModulus and then limb 2  *)
(* once more.  Values wider than the scaled limb keep their top bits.      *)

\* FieldModulus: "0x30644e72e131a029 b85045b68181585d 2833e84879b97091 b85045b68181585d"
KatFieldModulus ==
    FrOfLimbs(LimbOf(rModulus, 2), LimbOf(rModulus, 1), LimbOf(rModulus, 2), LimbOf(rModulus, 3))

\* frToHex
frToHex(fr) == ToBytes32(fr)

permutationVector(state) ==
    [Input |-> state, Expected |-> [i \in 1 .. T |-> frToHex(ProductionPermutation(state)[i])]]

\* zero state, all ones, [1, 2, 3], large values
permutationInputs ==
    <<<<Zero, Zero, Zero>>,
      <<One, One, One>>,
      <<FromUint64(1), FromUint64(2), FromUint64(3)>>,
      <<FromUint64(3), FromUint64(0), FromUint64(3)>>>>

generatePermutationVectors ==
    [k \in 1 .. Len(permutationInputs) |-> permutationVector(permutationInputs[k])]

hashVector(elements) == [Input |-> elements, Expected |-> frToHex(Hash(elements))]

\* empty input, [1], [1, 2], [1, 2, 3, 4, 5]
hashInputs ==
    <<<<>>,
      <<One>>,
      <<One, FromUint64(2)>>,
      <<One, FromUint64(2), FromUint64(3), FromUint64(0), FromUint64(1)>>>>

generateHashVectors == [k \in 1 .. Len(hashInputs) |-> hashVector(hashInputs[k])]

compress2Vector(a, b) == [A |-> a, B |-> b, Expected |-> frToHex(Compress2(a, b))]

\* zeros, one and two, large values
compress2Inputs ==
    <<<<Zero, Zero>>, <<One, FromUint64(2)>>, <<FromUint64(0), FromUint64(3)>>>>

generateCompress2Vectors ==
    [k \in 1 .. Len(compress2Inputs) |->
        compress2Vector(compress2Inputs[k][1], compress2Inputs[k][2])]

bytesHashVector(tag, data) == [Domain |-> tag, Data |-> data, Expected |-> HashBytes(tag, data)]

\* no bytes and "hello" under the generic domain, "hello" under the POET domain
bytesHashInputs ==
    <<[tag |-> 1, data |-> <<>>],
      [tag |-> 1, data |-> <<<<1, 2, 2>>>>],
      [tag |-> 2, data |-> <<<<1, 2, 2>>>>]>>

generateBytesHashVectors ==
    [k \in 1 .. Len(bytesHashInputs) |->
        bytesHashVector(bytesHashInputs[k].tag, bytesHashInputs[k].data)]

GenerateKATVectors ==
    [FieldModulus |-> KatFieldModulus,
     Parameters |-> [t |-> T, d |-> 5, F |-> FULL_ROUNDS, P |-> PARTIAL_ROUNDS,
                     rate |-> 2, capacity |-> 1],
     PermutationTests |-> generatePermutationVectors,
     HashTests |-> generateHashVectors,
     Compress2Tests |-> generateCompress2Vectors,
     BytesHashTests |-> generateBytesHashVectors]

---------------------------------------------------------------------------
(* The steps the arithmetic executes: for each operation the sequence of   *)
(* the straight-line blocks it runs and of the outcomes of its branches    *)
(* and loop tests.                                                         *)

\* Add: the limb additions, sub, the mask selection
stepsOfAdd(x, y) == <<"add", "sub", "cmov">>

\* Sub: sub, add, the mask selection
stepsOfSub(x, y) == <<"sub", "add", "cmov">>

\* IsZero: f[0] == 0 && f[1] == 0 && f[2] == 0 && f[3] == 0
RECURSIVE stepsOfIsZero(_, _)
stepsOfIsZero(f, k) ==
    IF k = Limbs THEN <<>>
    ELSE IF LimbOf(f, k) = 0 THEN <<"limb = 0">> \o stepsOfIsZero(f, k + 1)
    ELSE <<"limb # 0">>

\* Neg: if x.IsZero() { *z = Zero(); return z }; z.sub(&rModulus, x)
stepsOfNeg(x) ==
    stepsOfIsZero(x, 0) \o (IF IsZero(x) THEN <<"Zero">> ELSE <<"sub">>)

\* for j := 4; j < 8 && carry > 0; j++, entered with carry = 1: the number
\* of upper limbs the carry goes through
RECURSIVE carryIterations(_, _)
carryIterations(upper, j) ==
    IF j = Limbs THEN 0
    ELSE 1 + (IF LimbOf(upper, j) = LimbRadix - 1 THEN carryIterations(upper, j + 1) ELSE 0)

\* the passes of the reduction loop: whether t[0]&1 == 1 was taken, and then
\* how many times the carry loop ran
RECURSIVE stepsOfReduction(_, _)
stepsOfReduction(t, i) ==
    IF i = WordBits THEN <<>>
    ELSE IF t % 2 = 1
         THEN <<[odd |-> TRUE,
                 carries |-> IF (t % RadixR) + rModulus >= RadixR
                             THEN carryIterations(t \div RadixR, 0) ELSE 0]>>
              \o stepsOfReduction((t + rModulus) \div 2, i + 1)
         ELSE <<[odd |-> FALSE, carries |-> 0]>> \o stepsOfReduction(t \div 2, i + 1)

\* Mul: the product loops, the reduction loop, sub, the mask selection
stepsOfMul(x, y) == <<"product">> \o stepsOfReduction(x * y, 0) \o <<"sub", "cmov">>

\* the steps of a call of the arithmetic
stepsOf(c) ==
    CASE c.fn = "Add" -> stepsOfAdd(c.x, c.y)
      [] c.fn = "Sub" -> stepsOfSub(c.x, c.y)
      [] c.fn = "Neg" -> stepsOfNeg(c.x)
      [] c.fn = "Mul" -> stepsOfMul(c.x, c.y)
      [] c.fn = "sBoxProd" -> <<"Square", "Square", "Mul">>
      [] OTHER -> <<>>

---------------------------------------------------------------------------
(* The field operations, each applied once to operands drawn from all the  *)
(* values of the scaled word.  The package is loaded; besides the field    *)
(* calls a Hasher and the permutation can be driven, so that the words of  *)
(* their states are there to be looked at.                                 *)

Buffers == [1 .. BufBytes -> Byte]

\* the calls whose non-canonical operands are drawn from words
FieldInputs(words) ==
    {[fn |-> "Zero"], [fn |-> "One"], [fn |-> "GenerateKATVectors"]}
    \cup {[fn |-> "FromUint64", u |-> u] : u \in Uint64}
    \cup {[fn |-> "FromBytes", data |-> b] : b \in Buffers}
    \cup {[fn |-> "ToBytes32", x |-> x] : x \in Canonical}
    \cup {[fn |-> "Neg", x |-> x] : x \in Canonical}
    \cup {[fn |-> "Square", x |-> x] : x \in Canonical}
    \cup {[fn |-> "sBoxProd", x |-> x] : x \in Canonical}
    \cup {[fn |-> "Add", x |-> x, y |-> y] : x \in Canonical, y \in Canonical}
    \cup {[fn |-> "Sub", x |-> x, y |-> y] : x \in Canonical, y \in Canonical}
    \cup {[fn |-> "Mul", x |-> p[1], y |-> p[2]] :
             p \in {q \in words \X words : q[1] * q[2] < RadixR * rModulus}}

InitField ==
    /\ InitTables
    /\ h = NewHasher
    /\ twin = NewHasher
    /\ resetOf = <<>>
    /\ ops = 0
    /\ last = [op |-> "NewHasher", prev |-> "none"]
    /\ call \in {NoCall} \cup {[in |-> c, done |-> FALSE] : c \in FieldInputs(Fr)}
    /\ permuted = <<>>
    /\ threads = NoThreads

\* the call of fn still to be made
pending(fn) == call # NoCall /\ ~call.done /\ call.in.fn = fn

\* the call returns ret; nothing else changes
applied(ret) ==
    /\ call' = [in |-> call.in, done |-> TRUE, ret |-> ret, steps |-> stepsOf(call.in)]
    /\ UNCHANGED <<tables, h, twin, resetOf, ops, last, aside>>

ApplyZero == pending("Zero") /\ applied(Zero)

ApplyOne == pending("One") /\ applied(One)

ApplyFromUint64 == pending("FromUint64") /\ applied(FromUint64(call.in.u))

ApplyFromBytes == pending("FromBytes") /\ applied(FromBytes(call.in.data))

ApplyToBytes32 == pending("ToBytes32") /\ applied(ToBytes32(call.in.x))

ApplyNeg == pending("Neg") /\ applied(Neg(call.in.x))

ApplySquare == pending("Square") /\ applied(Square(call.in.x))

ApplyAdd == pending("Add") /\ applied(Add(call.in.x, call.in.y))

ApplySub == pending("Sub") /\ applied(Sub(call.in.x, call.in.y))

ApplyMul == pending("Mul") /\ applied(Mul(call.in.x, call.in.y))

ApplySBoxProd == pending("sBoxProd") /\ applied(sBoxProd(call.in.x))

ApplyGenerateKATVectors == pending("GenerateKATVectors") /\ applied(GenerateKATVectors)

NextField ==
    \/ ApplyGenerateKATVectors
    \/ ApplySBoxProd
    \/ ApplyZero
    \/ ApplyOne
    \/ ApplyFromUint64
    \/ ApplyFromBytes
    \/ ApplyToBytes32
    \/ ApplyNeg
    \/ ApplySquare
    \/ ApplyAdd
    \/ ApplySub
    \/ ApplyMul
    \/ call = NoCall /\ ops < MaxLoadedOps /\ (DoPermute \/ Next)

FieldSpec == InitField /\ [][NextField]_vars

\* the call of fn has returned
Applied(fn) == call # NoCall /\ call.done /\ call.in.fn = fn

\* C16: every field element the operations return is below the modulus
\* (Zero, One, FromUint64 and FromBytes on any input; Add, Sub, Neg, Mul and
\* Square on canonical operands), and so is every word of a Hasher state and
\* of a permutation's output.
CanonicalRange ==
    /\ \A fn \in {"Zero", "One", "FromUint64", "FromBytes", "Neg", "Square", "Add", "Sub"} :
           Applied(fn) => call.ret \in Canonical
    /\ (Applied("Mul") /\ call.in.x \in Canonical /\ call.in.y \in Canonical) =>
           call.ret \in Canonical
    /\ \A i \in 1 .. T : h.state[i] \in Canonical /\ twin.state[i] \in Canonical
    /\ \A k \in 1 .. Len(permuted) : \A i \in 1 .. T : permuted[k][2][i] \in Canonical

\* an addition whose full-width sum is not below the modulus has returned
AddWentPastModulus ==
    Applied("Add") /\ call.in.x + call.in.y >= rModulus /\ call.ret \in Canonical

\* the inverse of the radix R modulo r
RadixInverse == CHOOSE k \in Canonical : (k * RadixR) % rModulus = 1

\* C17: for operands x and y with x*y < R*r, Mul(x, y) is exactly
\* (x * y * R^-1) mod r, which the one final conditional subtraction brings
\* below r.
MulIsMontgomeryProduct ==
    (Applied("Mul") /\ call.in.x * call.in.y < RadixR * rModulus) =>
        /\ call.ret = (((call.in.x * call.in.y) % rModulus) * RadixInverse) % rModulus
        /\ call.ret < rModulus

\* a multiplication whose reduction loop ended at r or more, so that the
\* final subtraction acted, on a non-canonical operand
MulSubtractedOnce ==
    /\ Applied("Mul")
    /\ call.in.x >= rModulus
    /\ montgomeryReduction(call.in.x * call.in.y, 0) >= rModulus
    /\ call.ret = montgomeryReduction(call.in.x * call.in.y, 0) - rModulus

\* C18: for every buffer b, values of r and more and of 2r and more
\* included, ToBytes32(FromBytes(b)) is the big-endian encoding of the value
\* of b modulo r.
FromBytesReducesModulo ==
    Applied("FromBytes") =>
        ToBytes32(call.ret) = BigEndianPut(BigEndianUint(call.in.data) % rModulus, BufBytes)

\* FromBytes has returned for the buffer of the largest value, above 2r
FromBytesOfLargest ==
    /\ Applied("FromBytes")
    /\ call.in.data = [j \in 1 .. BufBytes |-> ByteRadix - 1]
    /\ BigEndianUint(call.in.data) >= 2 * rModulus

\* C19: FromBytes(x.ToBytes32()) = x for every canonical x, and
\* FromBytes(b).ToBytes32() = b for every buffer b of a value below r.
BytesRoundTrip ==
    /\ Applied("ToBytes32") => FromBytes(call.ret) = call.in.x
    /\ (Applied("FromBytes") /\ BigEndianUint(call.in.data) < rModulus) =>
           ToBytes32(call.ret) = call.in.data

\* ToBytes32 has returned, for an element, a buffer that is not its own
\* limbs and whose bytes differ from one another
ToBytes32Returned ==
    /\ Applied("ToBytes32")
    /\ call.in.x # BigEndianUint(call.ret)
    /\ call.ret[BufBytes] # call.ret[BufBytes - 1]

\* C20: for every canonical a, Zero included, Add(a, Zero()) = a and
\* Add(a, Neg(a)) = Zero().
AddIdentityAndInverse ==
    /\ (Applied("Add") /\ call.in.y = Zero) => call.ret = call.in.x
    /\ Applied("Neg") => Add(call.in.x, call.ret) = Zero

\* Neg has returned for a non-zero element
NegOfNonZeroReturned == Applied("Neg") /\ call.in.x # Zero /\ call.ret # Zero

\* C21: for canonical a and b, Mul(a, One()) = a, Mul(a, Zero()) = Zero()
\* and Mul(a, b) = Mul(b, a), One() being the constant montgomeryR.
MulIdentities ==
    (Applied("Mul") /\ call.in.x \in Canonical /\ call.in.y \in Canonical) =>
        /\ One = montgomeryR
        /\ call.in.y = One => call.ret = call.in.x
        /\ call.in.y = Zero => call.ret = Zero
        /\ call.ret = Mul(call.in.y, call.in.x)

\* an element other than Zero and One has been multiplied by One
MulByOneReturned ==
    /\ Applied("Mul")
    /\ call.in.y = One
    /\ call.in.x \in Canonical \ {Zero, One}
    /\ call.ret = call.in.x

\* C22: the field modulus written in the known-answer-test artifact is the
\* field modulus r, the value of the rModulus limbs the arithmetic uses.
KatModulusIsFieldModulus ==
    Applied("GenerateKATVectors") => call.ret.FieldModulus = rModulus

\* the artifact has been generated
KatGenerated == Applied("GenerateKATVectors") /\ Len(call.ret.PermutationTests) = 4

---------------------------------------------------------------------------
(* One ProductionPermutation call, step by step.  The frame of the call is *)
(* held in call: the state it works on, which of the three loops it is in, *)
(* the loop variable round, and where it is (pc): at a loop head ("loop"), *)
(* or inside fullRound / partialRound before the constants are added       *)
(* ("add"), before the S-box ("sbox") or before applyMDS ("mds").  The     *)
(* frame also keeps what was seen on the way: the state at the entry of    *)
(* the round (entry), the state before the last step (before), and how     *)
(* many rounds were invoked (rounds, fulls, partials) and how many times   *)
(* applyMDS ran (mixes).                                                   *)

RoundInputs == PermuteInputs \cup {<<Three, One, Three>>}

\* for i := 0; i < T; i++ { state[i].Add(&state[i], &roundConstants[round][i]) }
addRoundConstants(state, round) ==
    [i \in 1 .. T |-> Add(state[i], roundConstants[round + 1][i])]

\* state[0].Add(&state[0], &roundConstants[round][0])
addRoundConstant(state, round) ==
    [state EXCEPT ![1] = Add(state[1], roundConstants[round + 1][1])]

\* for i := 0; i < T; i++ { state[i] = sBoxProd(&state[i]) }
sBoxAll(state) == [i \in 1 .. T |-> sBoxProd(state[i])]

\* the S-box on every word, in a partial round too
sBoxEveryWord(state) == [i \in 1 .. T |-> sBoxProd(state[i])]

\* state[0] = sBoxProd(&state[0])
sBoxFirst(state) == [state EXCEPT ![1] = sBoxProd(state[1])]

\* the partial rounds' loop ending at their number instead of their last index
partialRoundsEndAtCount == PARTIAL_ROUNDS

\* round < FULL_ROUNDS/2+PARTIAL_ROUNDS
partialRoundsEnd == FULL_ROUNDS \div 2 + PARTIAL_ROUNDS

InitRound ==
    /\ InitTables
    /\ h = NewHasher
    /\ twin = NewHasher
    /\ resetOf = <<>>
    /\ ops = 0
    /\ last = [op |-> "NewHasher", prev |-> "none"]
    /\ permuted = <<>>
    /\ threads = NoThreads
    /\ call \in {[in |-> [fn |-> "ProductionPermutation", state |-> s], done |-> FALSE,
                   state |-> s, entry |-> s, before |-> s,
                   loop |-> 1, round |-> 0, pc |-> "loop", full |-> TRUE,
                   rounds |-> 0, fulls |-> 0, partials |-> 0, mixes |-> 0] :
                      s \in RoundInputs}

frame == <<tables, h, twin, resetOf, ops, last, aside>>

atLoop(n) == ~call.done /\ call.pc = "loop" /\ call.loop = n

\* fullRound(state, round) or partialRound(state, round) is called
enterRound(full) ==
    [call EXCEPT !.pc = "add", !.full = full, !.entry = call.state,
                 !.rounds = call.rounds + 1,
                 !.fulls = IF full THEN call.fulls + 1 ELSE call.fulls,
                 !.partials = IF full THEN call.partials ELSE call.partials + 1]

\* for round := 0; round < FULL_ROUNDS/2; round++ { fullRound(state, round) }
FirstFullRounds ==
    /\ atLoop(1)
    /\ call' = IF call.round < FULL_ROUNDS \div 2
               THEN enterRound(TRUE)
               ELSE [call EXCEPT !.loop = 2, !.round = FULL_ROUNDS \div 2]
    /\ UNCHANGED frame

\* for round := FULL_ROUNDS/2; round < FULL_ROUNDS/2+PARTIAL_ROUNDS; round++ { partialRound(state, round) }
PartialRounds ==
    /\ atLoop(2)
    /\ call' = IF call.round < partialRoundsEnd
               THEN enterRound(FALSE)
               ELSE [call EXCEPT !.loop = 3, !.round = FULL_ROUNDS \div 2 + PARTIAL_ROUNDS]
    /\ UNCHANGED frame

\* for round := FULL_ROUNDS/2+PARTIAL_ROUNDS; round < TOTAL_ROUNDS; round++ { fullRound(state, round) }
FinalFullRounds ==
    /\ atLoop(3)
    /\ call' = IF call.round < TOTAL_ROUNDS
               THEN enterRound(TRUE)
               ELSE [call EXCEPT !.done = TRUE]
    /\ UNCHANGED frame

\* the round's first step
AddConstants ==
    /\ ~call.done /\ call.pc = "add"
    /\ call' = [call EXCEPT !.pc = "sbox", !.before = call.state,
                            !.state = IF call.full
                                      THEN addRoundConstants(call.state, call.round)
                                      ELSE addRoundConstant(call.state, call.round)]
    /\ UNCHANGED frame

\* the round's second step
ApplySBox ==
    /\ ~call.done /\ call.pc = "sbox"
    /\ call' = [call EXCEPT !.pc = "mds", !.before = call.state,
                            !.state = IF call.full THEN sBoxAll(call.state)
                                                   ELSE sBoxFirst(call.state)]
    /\ UNCHANGED frame

\* applyMDS(state), the return of the round and round++
ApplyMDS ==
    /\ ~call.done /\ call.pc = "mds"
    /\ call' = [call EXCEPT !.pc = "loop", !.before = call.state,
                            !.state = applyMDS(call.state),
                            !.mixes = call.mixes + 1,
                            !.round = call.round + 1]
    /\ UNCHANGED frame

NextRound ==
    \/ FirstFullRounds
    \/ PartialRounds
    \/ FinalFullRounds
    \/ AddConstants
    \/ ApplySBox
    \/ ApplyMDS

RoundSpec == InitRound /\ [][NextRound]_vars

\* the value a Montgomery-form element stands for
valueOf(x) == (x * RadixInverse) % rModulus

\* the running call is inside a round
inRound == ~call.done /\ call.pc # "loop"

\* C23: a permutation call runs 4 full rounds, then 56 partial rounds, then
\* 4 full rounds, the i-th round with round index i; a full round adds its
\* constants to all the words and raises all of them to the 5th power, a
\* partial round does both to word 0 only and leaves words 1 and 2 as they
\* were; every round then applies the mixing layer exactly once.
RoundsInOrder ==
    /\ inRound =>
          /\ call.round = call.rounds - 1
          /\ call.full <=> (call.round < 4 \/ call.round >= 4 + 56)
          /\ call.mixes = call.rounds - 1
    /\ (inRound /\ call.pc = "sbox") =>
          /\ call.state[1] = (call.entry[1] + roundConstants[call.round + 1][1]) % rModulus
          /\ \A i \in 2 .. T :
                call.state[i] = IF call.full
                                THEN (call.entry[i] + roundConstants[call.round + 1][i]) % rModulus
                                ELSE call.entry[i]
    /\ (inRound /\ call.pc = "mds") =>
          /\ valueOf(call.state[1]) = (valueOf(call.before[1]) ^ 5) % rModulus
          /\ \A i \in 2 .. T :
                IF call.full
                THEN valueOf(call.state[i]) = (valueOf(call.before[i]) ^ 5) % rModulus
                ELSE call.state[i] = call.entry[i]
    /\ (~inRound /\ call.rounds > 0) =>
          /\ call.mixes = call.rounds
          /\ \A i \in 1 .. T :
                valueOf(call.state[i]) =
                    (valueOf(mdsMatrix[i][1]) * valueOf(call.before[1])
                     + valueOf(mdsMatrix[i][2]) * valueOf(call.before[2])
                     + valueOf(mdsMatrix[i][3]) * valueOf(call.before[3])) % rModulus

\* a partial round has applied its S-box while words 1 and 2 held values
\* that the S-box would have changed
PartialRoundKeptWords ==
    /\ inRound /\ call.pc = "mds" /\ ~call.full
    /\ sBoxProd(call.entry[2]) # call.entry[2]
    /\ sBoxProd(call.entry[3]) # call.entry[3]
    /\ call.state[1] # call.before[1]

\* C24 as stated: a permutation call makes 68 round invocations (8 full,
\* 4 before and 4 after, and 56 partial), each with one mixing application.
SixtyEightRoundInvocations ==
    call.done =>
        /\ call.rounds = 68
        /\ call.mixes = call.rounds
        /\ call.fulls = 8
        /\ call.partials = 56

\* C24, amended: a permutation call makes 64 round invocations: 4 full
\* rounds, then 56 partial rounds, then 4 full rounds, each with one mixing
\* application.
SixtyFourRoundInvocations ==
    /\ call.done =>
          /\ call.rounds = 64
          /\ call.mixes = call.rounds
          /\ call.fulls = 8
          /\ call.partials = 56
    /\ (call.loop = 2 /\ call.pc = "loop") => (call.fulls = 4 /\ call.rounds = 4 + call.partials)
    /\ (call.loop = 3 /\ call.pc = "loop") => (call.partials = 56 /\ call.rounds = 56 + call.fulls)

\* the permutation call has returned
PermutationReturned ==
    call.done /\ call.in.fn = "ProductionPermutation" /\ call.state # call.in.state

\* C25: Add, Sub, Neg and Mul execute the same sequence of steps (branches
\* taken, loop iteration counts) whatever their operands: the steps of every
\* call are those of the same operation on the operands One, One.
OperandIndependentSteps ==
    \A fn \in {"Add", "Sub", "Neg", "Mul"} :
        Applied(fn) => call.steps = stepsOf([fn |-> fn, x |-> One, y |-> One])

\* Neg has returned for a non-zero element and Mul for a non-zero product
ArithmeticReturned ==
    \/ Applied("Neg") /\ call.in.x # Zero
    \/ Applied("Mul") /\ call.in.x * call.in.y > 0

\* C26: sBoxProd(x) is x^5 in the field for every canonical x, computed with
\* three multiplications (two squarings and a product); it maps 0 to 0, 1 to
\* 1 and 2 to 32.
SBoxIsFifthPower ==
    Applied("sBoxProd") =>
        /\ call.ret \in Canonical
        /\ valueOf(call.ret) = (valueOf(call.in.x) ^ 5) % rModulus
        /\ call.steps = <<"Square", "Square", "Mul">>
        /\ call.in.x = Zero => call.ret = Zero
        /\ call.in.x = One => call.ret = One
        /\ call.in.x = FromUint64(2) => valueOf(call.ret) = 32

\* the S-box of the element 2 has returned
SBoxOfTwoReturned == Applied("sBoxProd") /\ call.in.x = FromUint64(2) /\ call.ret # call.in.x

\* C28: Hash pads nothing and encodes no length: for elements es of odd
\* length Hash(es...) = Hash(es..., Zero()), and Hash(a) = Hash(a, Zero()) =
\* Compress2(a, Zero()).
HashIgnoresTrailingZero ==
    (Returned("Hash") /\ Len(call.in.elements) % 2 = 1) =>
        /\ call.ret = Hash(Append(call.in.elements, Zero))
        /\ Len(call.in.elements) = 1 =>
               call.ret = Compress2(call.in.elements[1], Zero)

\* Hash has returned for three elements, the last of them not Zero
HashOfThreeReturned ==
    /\ Returned("Hash")
    /\ Len(call.in.elements) = 3
    /\ call.in.elements[3] # Zero
    /\ call.hasher.absorbed = 1

\* the number of byte groups HashBytes cuts the chunks into
RECURSIVE groupsIn(_)
groupsIn(data) ==
    IF data = <<>> THEN 0
    ELSE (Len(Head(data)) + GroupBytes - 1) \div GroupBytes + groupsIn(Tail(data))

\* the number of elements a call absorbs
absorbedBy(c) ==
    CASE c.fn = "Hash" -> Len(c.elements)
      [] c.fn = "Compress2" -> 2
      [] c.fn = "HashMany" -> Len(c.elements) + 1
      [] c.fn = "HashBytes" -> groupsIn(c.data) + 1

\* C29: a hashing call that absorbs m elements into a fresh Hasher and
\* finalizes once runs the permutation ceil(m/2) times, never when m = 0;
\* m is n for Hash of n elements, n + 1 for HashMany and 1 + the number of
\* byte groups for HashBytes.
PermutationsPerCall ==
    call.done =>
        /\ call.hasher.absorbs = absorbedBy(call.in)
        /\ call.hasher.perms = (absorbedBy(call.in) + 1) \div 2
        /\ absorbedBy(call.in) = 0 => call.hasher.perms = 0
        /\ call.hasher.absorbed = absorbedBy(call.in) % 2

\* calls have returned that absorbed five elements and permuted three times
FiveAbsorbedThreePermutations ==
    /\ Returned("HashBytes")
    /\ call.hasher.absorbs = 5
    /\ call.hasher.perms = 3

\* n zero bytes
zeroBytes(n) == [j \in 1 .. n |-> 0]

\* the byte groups of a chunk, cut as HashBytes cuts them
groupsOf(chunk) ==
    {SubSeq(chunk, i * GroupBytes + 1, Min((i + 1) * GroupBytes, Len(chunk))) :
        i \in 0 .. ((Len(chunk) + GroupBytes - 1) \div GroupBytes - 1)}

\* C30: HashBytes encodes no group length: for a domain d and a chunk c
\* shorter than a group, HashBytes(d, c) = HashBytes(d, z ++ c) for every run
\* z of zero bytes that keeps z ++ c within one group; and every group's
\* value is below r, so that FromBytes reduces nothing inside HashBytes.
HashBytesIgnoresLeadingZeros ==
    Returned("HashBytes") =>
        /\ (Len(call.in.data) = 1 /\ Len(call.in.data[1]) < GroupBytes) =>
              \A n \in 1 .. (GroupBytes - Len(call.in.data[1])) :
                  call.ret = HashBytes(call.in.tag, <<zeroBytes(n) \o call.in.data[1]>>)
        /\ \A k \in 1 .. Len(call.in.data) : \A g \in groupsOf(call.in.data[k]) :
              /\ BigEndianUint(padGroup(g)) < rModulus
              /\ valueOf(FromBytes(padGroup(g))) = BigEndianUint(g)

\* HashBytes has returned for one chunk of one non-zero byte
HashBytesOfShortChunk ==
    /\ Returned("HashBytes")
    /\ call.in.data = <<<<1>>>>
    /\ call.ret # HashBytes(call.in.tag, <<<<1, 0>>>>)

====
